---- MODULE Spec2Model ----
(***************************************************************************)
(* ConsoleReporter of slash (slash/reporting/console_reporter.py).         *)
(*                                                                         *)
(* The reporter is driven by lifecycle events and writes styled text to a  *)
(* terminal.  The terminal is modelled by the sequence of calls made on    *)
(* the TerminalWriter during the most recent handler call (`out`); a text  *)
(* is a sequence of pieces: literal strings of the source, single          *)
(* characters of code lines, and the decimal digits of formatted numbers.  *)
(***************************************************************************)
EXTENDS Integers, Sequences, FiniteSets, TLC

VARIABLES level, file_failed, file_has_skips, out, call,
          in_file, failed_since_start, skipped_since_start

vars == <<level, file_failed, file_has_skips, out, call,
          in_file, failed_since_start, skipped_since_start>>

(***************************************************************************)
(* Verbosity levels (slash.log.VERBOSITIES, the logbook levels): a higher  *)
(* level is a quieter reporter.  The branches of report_session_end        *)
(* (level <= ERROR, elif level <= CRITICAL) fix the order                  *)
(* WARNING < ERROR < CRITICAL.                                             *)
(***************************************************************************)
WARNING == 4
ERROR == 5
CRITICAL == 6

Levels == (WARNING - 1)..(CRITICAL + 1)

(***************************************************************************)
(* Bounds of the model.                                                    *)
(***************************************************************************)
MaxResults == 2
MaxErrs == 2
MaxFrames == 3
MaxHours == 101
Tick == 10

(***************************************************************************)
(* Python values.                                                          *)
(***************************************************************************)
None == "None"
Unset == "unset"
PyTrue == "True"
PyFalse == "False"

(***************************************************************************)
(* TerminalWriter calls.                                                   *)
(***************************************************************************)
Write(text, style) == [kind |-> "write", ch |-> "", text |-> text, style |-> style]

Line(text, style) == [kind |-> "line", ch |-> "", text |-> text, style |-> style]

Sep(sepchar, title, style) == [kind |-> "sep", ch |-> sepchar, text |-> title, style |-> style]

RECURSIVE Flatten(_)
Flatten(ss) == IF ss = <<>> THEN <<>> ELSE Head(ss) \o Flatten(Tail(ss))

(***************************************************************************)
(* String conversions.                                                     *)
(***************************************************************************)
DigitChars == <<"0", "1", "2", "3", "4", "5", "6", "7", "8", "9">>

RECURSIVE str_int(_)
str_int(n) ==
    IF n < 10 THEN <<DigitChars[n + 1]>>
    ELSE str_int(n \div 10) \o <<DigitChars[(n % 10) + 1]>>

format_02(n) ==
    LET s == str_int(n) IN IF Len(s) < 2 THEN <<"0">> \o s ELSE s

isspace(c) == c \in {" ", "\t", "\n"}

RECURSIVE takewhile_isspace(_)
takewhile_isspace(line) ==
    IF line = <<>> \/ ~isspace(Head(line)) THEN <<>>
    ELSE <<Head(line)>> \o takewhile_isspace(Tail(line))

RECURSIVE splitlines_from(_, _)
splitlines_from(s, cur) ==
    IF s = <<>> THEN (IF cur = <<>> THEN <<>> ELSE <<cur>>)
    ELSE IF Head(s) = "\n" THEN <<cur>> \o splitlines_from(Tail(s), <<>>)
    ELSE splitlines_from(Tail(s), Append(cur, Head(s)))

splitlines(s) == splitlines_from(s, <<>>)

(***************************************************************************)
(* The duration is held in ticks of 1/Tick second, so that fractional      *)
(* seconds are exact.  duration % 60, duration / 60 and int() are computed *)
(* on that representation.                                                 *)
(***************************************************************************)
_format_duration_minutes_unwrapped(duration) ==
    LET seconds == duration % (60 * Tick)
        minutes == duration
        hours == duration \div (3600 * Tick)
    IN  format_02(hours) \o <<":">> \o format_02(minutes \div (60 * Tick))
            \o <<":">> \o format_02(seconds \div Tick)

_format_duration(duration) ==
    LET seconds == duration % (60 * Tick)
        minutes == duration % (3600 * Tick)
        hours == duration \div (3600 * Tick)
    IN  format_02(hours) \o <<":">> \o format_02(minutes \div (60 * Tick))
            \o <<":">> \o format_02(seconds \div Tick)

(***************************************************************************)
(* Verbosity gating.                                                       *)
(***************************************************************************)
from_verbosity_inverted(lvl) == level >= lvl

from_verbosity(lvl) == level <= lvl

_is_verbose(lvl) == level <= lvl

(***************************************************************************)
(* Collaborators: the session's results.  A result carries its test        *)
(* metadata (None for the global result), its errors and its failures; an  *)
(* error carries a message and a traceback (absent, or a sequence of       *)
(* frames, outermost first).                                               *)
(***************************************************************************)
get_errors(result) == result.errors

get_failures(result) == result.failures

iter_all_results(session) == session.results

iter_all_failures(session) ==
    [i \in 1..Len(session.results) |->
        <<session.results[i], get_failures(session.results[i])>>]

iter_all_errors(session) ==
    [i \in 1..Len(session.results) |->
        <<session.results[i], get_errors(session.results[i])>>]

RECURSIVE SumLen(_)
SumLen(lists) == IF lists = <<>> THEN 0 ELSE Len(Head(lists)) + SumLen(Tail(lists))

get_num_failures(session) ==
    SumLen([i \in 1..Len(session.results) |-> get_failures(session.results[i])])

get_num_errors(session) ==
    SumLen([i \in 1..Len(session.results) |-> get_errors(session.results[i])])

is_success(session) == session.is_success

(***************************************************************************)
(* Rendering of the session-end report.                                    *)
(***************************************************************************)
_get_location(result) ==
    IF result.test_metadata # None THEN <<result.test_metadata>> ELSE <<"**global**">>

chain_items(frame) == frame.locals \o frame.globals

_write_frame_locals(frame) ==
    IF ~from_verbosity(WARNING) THEN <<>>
    ELSE IF frame.locals = <<>> /\ frame.globals = <<>> THEN <<>>
    ELSE LET items == chain_items(frame)
         IN  Flatten([index \in 1..Len(items) |->
                    (IF index > 1 THEN <<Write(<<", ">>, {})>> ELSE <<>>)
                    \o <<Write(<<items[index][1], ": ">>, {"cyan", "blink"}),
                         Write(<<items[index][2]>>, {})>>])
             \o <<Write(<<"\n\n">>, {})>>

frame_code_lines(frame) ==
    IF level <= WARNING THEN splitlines(frame.code_string) ELSE <<frame.code_line>>

_write_frame_code(frame) ==
    IF frame.code_string = <<>> THEN <<>>
    ELSE LET code_lines == frame_code_lines(frame)
         IN  Flatten([i \in 1..Len(code_lines) |->
                    <<IF i = Len(code_lines)
                         THEN Write(<<">">>, {"white", "bold"})
                         ELSE Write(<<" ">>, {}),
                      Write(code_lines[i], {"white", "bold"}),
                      Write(<<"\n">>, {})>>])

_report_error_frames_outermost(error) ==
    IF ~error.traceback.present THEN <<>>
    ELSE IF level > WARNING THEN <<error.traceback.frames[1]>>
    ELSE error.traceback.frames

_report_error_frames(error) ==
    IF ~error.traceback.present THEN <<>>
    ELSE IF level > WARNING
         THEN <<error.traceback.frames[Len(error.traceback.frames)]>>
    ELSE error.traceback.frames

_report_error_message_always(error, marker) ==
    LET line == <<>>
        frames == _report_error_frames(error)
    IN  Flatten([i \in 1..Len(frames) |->
            (IF i # 1 THEN <<Sep("- ", <<>>, {})>> ELSE <<>>)
            \o _write_frame_locals(frames[i])
            \o _write_frame_code(frames[i])
            \o <<Write(<<frames[i].filename, ":">> \o str_int(frames[i].lineno)
                        \o <<":", "\n">>, {})>>])
        \o <<Write(<<marker>>, {"red", "bold"}),
             Write(takewhile_isspace(line), {}),
             Write(<<error.message>>, {"red", "bold"}),
             Write(<<"\n">>, {})>>

(* `line` is the local of _report_error (lines 90 and 100); the `line` that *)
(* _write_frame_code iterates over is a local of that method.               *)
_report_error(error, marker) ==
    LET line == <<>>
        frames == _report_error_frames(error)
    IN  Flatten([i \in 1..Len(frames) |->
            (IF i # 1 THEN <<Sep("- ", <<>>, {})>> ELSE <<>>)
            \o _write_frame_locals(frames[i])
            \o _write_frame_code(frames[i])
            \o (IF i = Len(frames)
                    THEN <<Write(<<marker>>, {"red", "bold"}),
                           Write(takewhile_isspace(line), {}),
                           Write(<<error.message>>, {"red", "bold"}),
                           Write(<<"\n">>, {})>>
                    ELSE <<>>)
            \o <<Write(<<frames[i].filename, ":">> \o str_int(frames[i].lineno)
                        \o <<":", "\n">>, {})>>])

_report_error_objects(title, iterator, marker) ==
    <<Sep("=", <<title>>, {})>>
    \o Flatten([r \in 1..Len(iterator) |->
            Flatten([e \in 1..Len(iterator[r][2]) |->
                <<Sep("_", _get_location(iterator[r][1]), {})>>
                \o _report_error(iterator[r][2][e], marker)])])

_report_failures(session) ==
    _report_error_objects("FAILURES", iter_all_failures(session), "F")

_report_errors(session) ==
    _report_error_objects("ERRORS", iter_all_errors(session), "E")

_report_failures_and_errors_concise_every_result(session) ==
    LET results == iter_all_results(session)
    IN  Flatten([r \in 1..Len(results) |->
            <<Write(_get_location(results[r]), {}), Write(<<":">>, {})>>
            \o (IF get_errors(results[r]) # <<>>
                    THEN <<Write(<<" ">> \o str_int(Len(get_errors(results[r])))
                                    \o <<" errors">>, {})>>
                    ELSE <<>>)
            \o (IF get_failures(results[r]) # <<>>
                    THEN <<Write(<<" ">> \o str_int(Len(get_failures(results[r])))
                                    \o <<" failures">>, {})>>
                    ELSE <<>>)
            \o <<Write(<<"\n">>, {})>>])

_report_failures_and_errors_concise(session) ==
    LET results == iter_all_results(session)
    IN  Flatten([r \in 1..Len(results) |->
            IF get_errors(results[r]) # <<>> \/ get_failures(results[r]) # <<>>
            THEN <<Write(_get_location(results[r]), {}), Write(<<":">>, {})>>
                 \o (IF get_errors(results[r]) # <<>>
                        THEN <<Write(<<" ">> \o str_int(Len(get_errors(results[r])))
                                        \o <<" errors">>, {})>>
                        ELSE <<>>)
                 \o (IF get_failures(results[r]) # <<>>
                        THEN <<Write(<<" ">> \o str_int(Len(get_failures(results[r])))
                                        \o <<" failures">>, {})>>
                        ELSE <<>>)
                 \o <<Write(<<"\n">>, {})>>
            ELSE <<>>])

session_end_summary_below_error(session) ==
    IF level < ERROR THEN _report_failures(session) \o _report_errors(session)
    ELSE IF level <= CRITICAL THEN _report_failures_and_errors_concise(session)
    ELSE <<>>

session_end_summary(session) ==
    IF level <= ERROR THEN _report_failures(session) \o _report_errors(session)
    ELSE IF level <= CRITICAL THEN _report_failures_and_errors_concise(session)
    ELSE <<>>

session_end_closing_always_green(session) ==
    Sep("=", <<"Session ended.">> \o <<" Total duration: ">>
                \o _format_duration(session.duration), {"bold", "green"})

session_end_closing(session) ==
    LET kwargs == {"bold"} \cup (IF is_success(session) THEN {"green"} ELSE {"red"})
        msg == <<"Session ended.">>
               \o (IF is_success(session) THEN <<>>
                   ELSE <<" ">> \o str_int(get_num_failures(session))
                        \o <<" failures, ">> \o str_int(get_num_errors(session))
                        \o <<" errors.">>)
               \o <<" Total duration: ">> \o _format_duration(session.duration)
    IN  Sep("=", msg, kwargs)

(***************************************************************************)
(* Inputs: frames, tracebacks, errors, results and sessions.               *)
(***************************************************************************)
Frames ==
    { [filename |-> "a.py", lineno |-> 7,
       code_string |-> <<" ", "a", "\n", " ", " ", "b">>,
       code_line |-> <<" ", " ", "b">>,
       locals |-> << <<"x", "1">> >>, globals |-> << <<"g", "2">> >>],
      [filename |-> "b.py", lineno |-> 12,
       code_string |-> <<>>, code_line |-> <<>>,
       locals |-> <<>>, globals |-> <<>>],
      [filename |-> "c.py", lineno |-> 3,
       code_string |-> <<"\t", "d", "\n">>,
       code_line |-> <<"\t", "d">>,
       locals |-> <<>>, globals |-> << <<"g", "2">> >>] }

NoTraceback == [present |-> FALSE, frames |-> <<>>]

Tracebacks ==
    {NoTraceback} \cup
    UNION {{[present |-> TRUE, frames |-> fs] : fs \in [1..n -> Frames]} : n \in 1..MaxFrames}

SimpleError == [message |-> "boom", traceback |-> NoTraceback]

TestName == "test_a.py:test_x"

CountResults(meta) ==
    {[test_metadata |-> meta,
      errors |-> [i \in 1..n |-> SimpleError],
      failures |-> [i \in 1..m |-> SimpleError]] :
        n \in 0..MaxErrs, m \in 0..MaxErrs}

(* iter_all_results() yields the results of the tests, then the global     *)
(* result.                                                                 *)
GlobalTails == {<<>>} \cup {<<g>> : g \in CountResults(None)}

TracebackResults ==
    {[test_metadata |-> TestName,
      errors |-> IF marker = "E" THEN <<[message |-> "boom", traceback |-> tb]>> ELSE <<>>,
      failures |-> IF marker = "F" THEN <<[message |-> "boom", traceback |-> tb]>> ELSE <<>>] :
        marker \in {"E", "F"}, tb \in Tracebacks}

Durations ==
    {((h * 60 + m) * 60 + sec) * Tick + f :
        h \in {0, 1, 9, 10, 99, 100, MaxHours}, m \in {0, 2, 59},
        sec \in {0, 5, 59}, f \in {0, Tick - 1}}

SampleDuration == ((1 * 60 + 2) * 60 + 5) * Tick + (Tick - 1)

(* is_success() is false whenever the session has a failure or an error;   *)
(* without any it is true or false (skipped or interrupted tests).          *)
CanSucceed(results) ==
    \A i \in 1..Len(results) : results[i].errors = <<>> /\ results[i].failures = <<>>

Session(results, duration, ok) ==
    [results |-> results, duration |-> duration, is_success |-> ok]

OneFrameError ==
    [test_metadata |-> TestName,
     errors |-> <<[message |-> "boom",
                   traceback |-> [present |-> TRUE,
                                  frames |-> <<CHOOSE f \in Frames : f.filename = "a.py">>]]>>,
     failures |-> <<>>]

SampleSessions ==
    {Session(<<>>, SampleDuration, TRUE), Session(<<>>, SampleDuration, FALSE),
     Session(<<OneFrameError>>, SampleDuration, FALSE)}

Filenames == {"test_a.py", "test_b.py"}

NoSession == [results |-> <<>>, duration |-> 0, is_success |-> TRUE]

Called(op, filename, session) == [op |-> op, filename |-> filename, session |-> session]

(***************************************************************************)
(* The reporter after construction: the level is fixed, the per-file       *)
(* attributes do not exist yet.                                            *)
(***************************************************************************)
Init ==
    /\ level \in Levels
    /\ file_failed = Unset
    /\ file_has_skips = Unset
    /\ out = <<>>
    /\ call = Called("__init__", "", NoSession)
    /\ in_file = FALSE
    /\ failed_since_start = FALSE
    /\ skipped_since_start = FALSE

report_session_start ==
    /\ out' = IF from_verbosity(ERROR)
                THEN <<Sep("=", <<"Session starts">>, {"white", "bold"})>>
                ELSE <<>>
    /\ call' = Called("report_session_start", "", NoSession)
    /\ UNCHANGED <<level, file_failed, file_has_skips,
                   in_file, failed_since_start, skipped_since_start>>

report_session_end(session) ==
    /\ out' = (IF level > WARNING THEN <<Write(<<"\n">>, {})>> ELSE <<>>)
              \o session_end_summary(session)
              \o <<session_end_closing(session)>>
    /\ call' = Called("report_session_end", "", session)
    /\ UNCHANGED <<level, file_failed, file_has_skips,
                   in_file, failed_since_start, skipped_since_start>>

report_file_start_no_reset(filename) ==
    /\ IF from_verbosity(WARNING)
         THEN /\ UNCHANGED <<file_failed, file_has_skips>>
              /\ out' = <<Write(<<filename>>, {}), Write(<<" ">>, {})>>
         ELSE /\ out' = <<>>
              /\ UNCHANGED <<file_failed, file_has_skips>>
    /\ call' = Called("report_file_start", filename, NoSession)
    /\ in_file' = TRUE
    /\ failed_since_start' = FALSE
    /\ skipped_since_start' = FALSE
    /\ UNCHANGED level

report_file_start(filename) ==
    /\ IF from_verbosity(WARNING)
         THEN /\ file_failed' = PyFalse
              /\ file_has_skips' = PyFalse
              /\ out' = <<Write(<<filename>>, {}), Write(<<" ">>, {})>>
         ELSE /\ out' = <<>>
              /\ UNCHANGED <<file_failed, file_has_skips>>
    /\ call' = Called("report_file_start", filename, NoSession)
    /\ in_file' = TRUE
    /\ failed_since_start' = FALSE
    /\ skipped_since_start' = FALSE
    /\ UNCHANGED level

(* The driver ends only a file it has started.                             *)
report_file_end(filename) ==
    /\ in_file
    /\ out' = IF from_verbosity(WARNING)
                THEN <<Write(<<"  ">>, {}),
                       IF file_failed = PyTrue THEN Line(<<"FAIL">>, {"red"})
                       ELSE IF file_has_skips = PyTrue THEN Line(<<"PASS">>, {"yellow"})
                       ELSE Line(<<"PASS">>, {"green"})>>
                ELSE <<>>
    /\ call' = Called("report_file_end", filename, NoSession)
    /\ in_file' = FALSE
    /\ UNCHANGED <<level, file_failed, file_has_skips,
                   failed_since_start, skipped_since_start>>

report_test_success ==
    /\ out' = <<Write(<<".">>, {})>>
    /\ call' = Called("report_test_success", "", NoSession)
    /\ UNCHANGED <<level, file_failed, file_has_skips,
                   in_file, failed_since_start, skipped_since_start>>

report_test_skip_flag_untouched ==
    /\ out' = <<Write(<<"s">>, {"yellow"})>>
    /\ call' = Called("report_test_skip", "", NoSession)
    /\ skipped_since_start' = TRUE
    /\ UNCHANGED <<level, file_failed, file_has_skips, in_file, failed_since_start>>

report_test_skip ==
    /\ out' = <<Write(<<"s">>, {"yellow"})>>
    /\ file_has_skips' = PyTrue
    /\ call' = Called("report_test_skip", "", NoSession)
    /\ skipped_since_start' = TRUE
    /\ UNCHANGED <<level, file_failed, in_file, failed_since_start>>

report_test_error ==
    /\ file_failed' = PyTrue
    /\ out' = <<Write(<<"E">>, {"red"})>>
    /\ call' = Called("report_test_error", "", NoSession)
    /\ failed_since_start' = TRUE
    /\ UNCHANGED <<level, file_has_skips, in_file, skipped_since_start>>

report_test_failure ==
    /\ file_failed' = PyTrue
    /\ out' = <<Write(<<"F">>, {"red"})>>
    /\ call' = Called("report_test_failure", "", NoSession)
    /\ failed_since_start' = TRUE
    /\ UNCHANGED <<level, file_has_skips, in_file, skipped_since_start>>

Next ==
    \/ report_session_start
    \/ \E session \in SampleSessions : report_session_end(session)
    \/ \E filename \in Filenames : report_file_start(filename)
    \/ \E filename \in Filenames : report_file_end(filename)
    \/ report_test_success
    \/ report_test_skip
    \/ report_test_error
    \/ report_test_failure

Spec == Init /\ [][Next]_vars

(***************************************************************************)
(* The end of a session over every session of the bounded input sets; a    *)
(* session starts at most once and ends once.                              *)
(***************************************************************************)
SessionRunning == call.op # "report_session_end"

EndCounted ==
    /\ SessionRunning
    /\ \E k \in 0..MaxResults : \E rs \in [1..k -> CountResults(TestName)] :
       \E tail \in GlobalTails : \E ok \in BOOLEAN :
            /\ Len(rs) + Len(tail) <= MaxResults
            /\ ok => CanSucceed(rs \o tail)
            /\ report_session_end(Session(rs \o tail, SampleDuration, ok))

EndTraceback ==
    /\ SessionRunning
    /\ \E r \in TracebackResults :
            report_session_end(Session(<<r>>, SampleDuration, FALSE))

EndTimed ==
    /\ SessionRunning
    /\ \E d \in Durations : \E ok \in BOOLEAN :
            report_session_end(Session(<<>>, d, ok))

NextSessionEnd ==
    \/ call.op = "__init__" /\ report_session_start
    \/ EndCounted
    \/ EndTraceback
    \/ EndTimed

SpecSessionEnd == Init /\ [][NextSessionEnd]_vars

(***************************************************************************)
(* Observers of the written output, used by the properties below.          *)
(***************************************************************************)
IsWrite(tok, text, style) == tok.kind = "write" /\ tok.text = text /\ tok.style = style

IsStatus(tok, word, colour) == tok.kind = "line" /\ tok.text = <<word>> /\ tok.style = {colour}

IsTestOp(op) ==
    op \in {"report_test_success", "report_test_skip", "report_test_error", "report_test_failure"}

(* C1: whatever the threshold and the earlier events, each test event      *)
(* writes exactly its one-character marker ('.', 's', 'E', 'F') and        *)
(* nothing else; a skip sets file_has_skips, an error or a failure sets    *)
(* file_failed, and a success changes neither flag.                        *)
C1_TestMarkers ==
    [][ /\ IsTestOp(call'.op) => Len(out') = 1 /\ out'[1].kind = "write"
        /\ call'.op = "report_test_success" =>
              /\ out'[1].text = <<".">>
              /\ file_failed' = file_failed
              /\ file_has_skips' = file_has_skips
        /\ call'.op = "report_test_skip" =>
              /\ out'[1].text = <<"s">>
              /\ file_has_skips' = PyTrue
        /\ call'.op = "report_test_error" =>
              /\ out'[1].text = <<"E">>
              /\ file_failed' = PyTrue
        /\ call'.op = "report_test_failure" =>
              /\ out'[1].text = <<"F">>
              /\ file_failed' = PyTrue ]_vars

C1_Witness ==
    /\ call.op = "report_test_skip"
    /\ level > CRITICAL
    /\ file_has_skips = PyTrue
    /\ file_failed = Unset
    /\ out = <<Write(<<"s">>, {"yellow"})>>

(* C2: at a threshold <= WARNING, report_file_end writes FAIL (red) iff an *)
(* error or a failure was reported since the most recent report_file_start;*)
(* otherwise PASS, yellow iff a skip was reported since then, else green.  *)
(* Events of an earlier file do not count.                                 *)
C2_FileStatus ==
    (call.op = "report_file_end" /\ level <= WARNING) =>
        /\ out # <<>>
        /\ LET status == out[Len(out)]
           IN  /\ IsStatus(status, "FAIL", "red") <=> failed_since_start
               /\ IsStatus(status, "PASS", "yellow")
                    <=> (~failed_since_start /\ skipped_since_start)
               /\ IsStatus(status, "PASS", "green")
                    <=> (~failed_since_start /\ ~skipped_since_start)

C2_Witness ==
    /\ call.op = "report_file_end"
    /\ level <= WARNING
    /\ ~failed_since_start
    /\ skipped_since_start
    /\ IsStatus(out[Len(out)], "PASS", "yellow")

(* C3: above WARNING report_file_start and report_file_end write nothing;  *)
(* at WARNING or below report_file_start writes the filename and a space   *)
(* and report_file_end writes a PASS/FAIL status.                          *)
C3_FileGating ==
    /\ (call.op \in {"report_file_start", "report_file_end"} /\ level > WARNING)
            => out = <<>>
    /\ (call.op = "report_file_start" /\ level <= WARNING)
            => /\ \A i \in 1..Len(out) : out[i].kind = "write"
               /\ Flatten([i \in 1..Len(out) |-> out[i].text]) = <<call.filename, " ">>
    /\ (call.op = "report_file_end" /\ level <= WARNING)
            => \E i \in 1..Len(out) :
                    out[i].kind = "line" /\ out[i].text \in {<<"PASS">>, <<"FAIL">>}

C3_Witness ==
    /\ call.op = "report_file_end"
    /\ level > WARNING
    /\ file_failed = PyTrue
    /\ failed_since_start
    /\ out = <<>>

(***************************************************************************)
(* Observers of the session-end report.                                    *)
(***************************************************************************)
Ended == call.op = "report_session_end"

Positions(P(_)) == {i \in 1..Len(out) : P(out[i])}

IsSection(tok, title) == tok.kind = "sep" /\ tok.ch = "=" /\ tok.text = <<title>>

IsFailuresSection(tok) == IsSection(tok, "FAILURES")

IsErrorsSection(tok) == IsSection(tok, "ERRORS")

IsClosing(tok) ==
    tok.kind = "sep" /\ tok.ch = "=" /\ tok.text # <<>> /\ tok.text[1] = "Session ended."

IsLocationRule(tok) == tok.kind = "sep" /\ tok.ch = "_"

IsThinRule(tok) == tok.kind = "sep" /\ tok.ch = "- "

IsColon(tok) == IsWrite(tok, <<":">>, {})

IsNewline(tok) == IsWrite(tok, <<"\n">>, {})

IsMarker(tok) ==
    tok.kind = "write" /\ tok.style = {"red", "bold"} /\ tok.text \in {<<"E">>, <<"F">>}

IsPosition(tok) ==
    /\ tok.kind = "write"
    /\ Len(tok.text) >= 5
    /\ tok.text[2] = ":"
    /\ tok.text[Len(tok.text) - 1] = ":"
    /\ tok.text[Len(tok.text)] = "\n"

IndexOf(text, piece) ==
    IF \E i \in 1..Len(text) : text[i] = piece
    THEN CHOOSE i \in 1..Len(text) : text[i] = piece /\ \A j \in 1..(i - 1) : text[j] # piece
    ELSE 0

IsDigit(c) == \E d \in 1..10 : DigitChars[d] = c

DigitValue(c) == (CHOOSE d \in 1..10 : DigitChars[d] = c) - 1

(* The number a decimal numeral denotes; -1 for anything else.             *)
RECURSIVE ParseInt(_)
ParseInt(ds) ==
    IF ds = <<>> \/ \E i \in 1..Len(ds) : ~IsDigit(ds[i]) THEN -1
    ELSE IF Len(ds) = 1 THEN DigitValue(ds[1])
    ELSE 10 * ParseInt(SubSeq(ds, 1, Len(ds) - 1)) + DigitValue(ds[Len(ds)])

(* A numeral as "{0}".format(n) prints it: no leading zero.                *)
IsDecimalOf(ds, n) == ParseInt(ds) = n /\ (Len(ds) > 1 => ds[1] # "0")

(* A numeral as "{0:02}".format(n) prints it: two digits at least.         *)
IsPadded2Of(ds, n) == ParseInt(ds) = n /\ Len(ds) >= 2 /\ (Len(ds) > 2 => ds[1] # "0")

Location(result) ==
    IF result.test_metadata = None THEN "**global**" ELSE result.test_metadata

HasIssues(result) == Len(result.errors) + Len(result.failures) > 0

Reported == {i \in 1..Len(call.session.results) : HasIssues(call.session.results[i])}

ClosingText == out[Len(out)].text

(* C4: the full FAILURES section followed by the full ERRORS section is    *)
(* rendered iff threshold <= ERROR, the concise lines iff ERROR <          *)
(* threshold <= CRITICAL, neither above CRITICAL; the closing 'Session     *)
(* ended.' separator is written exactly once, after any summary output.    *)
C4_SummaryStrategy ==
    Ended =>
        /\ Positions(IsClosing) = {Len(out)}
        /\ IF level <= ERROR
             THEN /\ Cardinality(Positions(IsFailuresSection)) = 1
                  /\ Cardinality(Positions(IsErrorsSection)) = 1
                  /\ \A i \in Positions(IsFailuresSection) :
                        \A j \in Positions(IsErrorsSection) : i < j
                  /\ Cardinality(Positions(IsLocationRule))
                        = get_num_failures(call.session) + get_num_errors(call.session)
                  /\ Positions(IsColon) = {}
             ELSE /\ Positions(IsFailuresSection) = {}
                  /\ Positions(IsErrorsSection) = {}
                  /\ Positions(IsLocationRule) = {}
        /\ (ERROR < level /\ level <= CRITICAL)
                => Cardinality(Positions(IsColon)) = Cardinality(Reported)
        /\ level > CRITICAL => Len(out) = 2 /\ IsNewline(out[1])

C4_Witness ==
    /\ Ended
    /\ level = CRITICAL
    /\ Cardinality(Reported) = 2
    /\ Cardinality(Positions(IsColon)) = 2
    /\ Positions(IsFailuresSection) = {}

HasCounts(text, f, e) ==
    LET iF == IndexOf(text, " failures, ")
        iE == IndexOf(text, " errors.")
    IN  /\ Len(text) >= 2
        /\ text[2] = " "
        /\ 3 < iF /\ iF + 1 < iE
        /\ IsDecimalOf(SubSeq(text, 3, iF - 1), f)
        /\ IsDecimalOf(SubSeq(text, iF + 1, iE - 1), e)
        /\ text[iE + 1] = " Total duration: "

HasNoCounts(text) ==
    /\ IndexOf(text, " failures, ") = 0
    /\ IndexOf(text, " errors.") = 0
    /\ text[2] = " Total duration: "

RECURSIVE TokenLines(_, _)
TokenLines(toks, cur) ==
    IF toks = <<>> THEN (IF cur = <<>> THEN <<>> ELSE <<cur \o <<"<unterminated>">> >>)
    ELSE IF IsNewline(Head(toks)) THEN <<cur>> \o TokenLines(Tail(toks), <<>>)
    ELSE TokenLines(Tail(toks), cur \o Head(toks).text)

IsConciseLine(t, result) ==
    LET n == Len(result.errors)
        m == Len(result.failures)
        iE == IndexOf(t, " errors")
        iF == IndexOf(t, " failures")
        start == IF n > 0 THEN iE + 1 ELSE 3
    IN  /\ Len(t) >= 2
        /\ t[1] = Location(result)
        /\ t[2] = ":"
        /\ (n = 0) <=> (iE = 0)
        /\ (m = 0) <=> (iF = 0)
        /\ n > 0 => t[3] = " " /\ IsDecimalOf(SubSeq(t, 4, iE - 1), n)
        /\ m > 0 => /\ start < iF
                    /\ t[start] = " "
                    /\ IsDecimalOf(SubSeq(t, start + 1, iF - 1), m)
        /\ Len(t) = (IF m > 0 THEN iF ELSE IF n > 0 THEN iE ELSE 2)

(* C6: in concise mode one line is written per result that has an error or *)
(* a failure, in iter_all_results() order, '<location>: <n> errors <m>     *)
(* failures' with a zero clause omitted; a result with neither writes      *)
(* nothing; the location is the test identifier or '**global**'.           *)
C6_ConciseLines ==
    (Ended /\ ERROR < level /\ level <= CRITICAL) =>
        LET lines == TokenLines(SubSeq(out, 2, Len(out) - 1), <<>>)
            reported == SelectSeq(call.session.results, HasIssues)
        IN  /\ Len(lines) = Len(reported)
            /\ \A i \in 1..Len(lines) : IsConciseLine(lines[i], reported[i])

C6_Witness ==
    /\ Ended
    /\ level = CRITICAL
    /\ Len(call.session.results) = 2
    /\ Len(call.session.results[1].errors) = 2
    /\ Len(call.session.results[1].failures) = 1
    /\ ~HasIssues(call.session.results[2])
    /\ call.session.results[2].test_metadata = None
    /\ TokenLines(SubSeq(out, 2, Len(out) - 1), <<>>)
          = << <<TestName, ":", " ", "2", " errors", " ", "1", " failures">> >>

DurationText ==
    SubSeq(ClosingText, IndexOf(ClosingText, " Total duration: ") + 1, Len(ClosingText))

(* C7: the duration is printed as HH:MM:SS of the duration floored to      *)
(* whole seconds, HH = floor(d/3600), MM = floor(d/60) mod 60, SS =        *)
(* floor(d) mod 60, each padded to two digits at least and never           *)
(* truncated; MM and SS are in 0..59 and HH*3600 + MM*60 + SS = floor(d).  *)
C7_DurationFormat ==
    Ended =>
        LET whole == call.session.duration \div Tick
            dt == DurationText
            c1 == IndexOf(dt, ":")
            rest == SubSeq(dt, c1 + 1, Len(dt))
            c2 == IndexOf(rest, ":")
            hh == SubSeq(dt, 1, c1 - 1)
            mm == SubSeq(rest, 1, c2 - 1)
            ss == SubSeq(rest, c2 + 1, Len(rest))
        IN  /\ IndexOf(ClosingText, " Total duration: ") > 0
            /\ c1 > 0 /\ c2 > 0
            /\ IsPadded2Of(hh, whole \div 3600)
            /\ IsPadded2Of(mm, (whole \div 60) % 60)
            /\ IsPadded2Of(ss, whole % 60)
            /\ ParseInt(mm) \in 0..59
            /\ ParseInt(ss) \in 0..59
            /\ ParseInt(hh) * 3600 + ParseInt(mm) * 60 + ParseInt(ss) = whole

C7_Witness ==
    /\ Ended
    /\ call.session.duration = 3725 * Tick + 9
    /\ DurationText = <<"0", "1", ":", "0", "2", ":", "0", "5">>

LeadingWhitespace(line) ==
    LET k == CHOOSE k \in 0..Len(line) :
                /\ \A j \in 1..k : line[j] \in {" ", "\t"}
                /\ (k = Len(line) \/ line[k + 1] \notin {" ", "\t"})
    IN  SubSeq(line, 1, k)

FollowsCodeBlock(p) ==
    /\ p >= 4
    /\ IsNewline(out[p - 1])
    /\ out[p - 2].kind = "write" /\ out[p - 2].style = {"white", "bold"}
    /\ IsWrite(out[p - 3], <<">">>, {"white", "bold"})

(* C8 as claimed: after the code block of the last rendered frame, the     *)
(* marker is followed by the leading whitespace of the last printed code   *)
(* line, then the message, then a line break.                              *)
C8_MessageIndent ==
    (Ended /\ level <= ERROR) =>
        \A p \in Positions(IsMarker) :
            FollowsCodeBlock(p) =>
                /\ p + 3 <= Len(out)
                /\ out[p + 1].kind = "write"
                /\ out[p + 1].text = LeadingWhitespace(out[p - 2].text)
                /\ out[p + 2].kind = "write" /\ out[p + 2].text = <<"boom">>
                /\ IsNewline(out[p + 3])

SingleTraced ==
    /\ Len(call.session.results) = 1
    /\ Len(call.session.results[1].errors) + Len(call.session.results[1].failures) = 1
    /\ (call.session.results[1].errors \o call.session.results[1].failures)[1].traceback.present

TheError == (call.session.results[1].errors \o call.session.results[1].failures)[1]

TheMarker == IF call.session.results[1].errors # <<>> THEN "E" ELSE "F"

IsPositionOf(tok, frame) ==
    /\ IsPosition(tok)
    /\ tok.text[1] = frame.filename
    /\ IsDecimalOf(SubSeq(tok.text, 3, Len(tok.text) - 2), frame.lineno)

(* C9: for an error with a traceback of n >= 1 frames, above WARNING only  *)
(* the innermost frame is rendered and no thin rule is written; at WARNING *)
(* or below all n frames are rendered outermost first with a thin rule     *)
(* before every frame but the first.  Every rendered frame ends with its   *)
(* 'filename:lineno:' line, and the marker+message line is written once,   *)
(* for the last rendered frame, before that frame's 'filename:lineno:'.    *)
C9_FrameSelection ==
    (Ended /\ level <= ERROR /\ SingleTraced) =>
        LET frames == TheError.traceback.frames
            n == Len(frames)
            expected == IF level > WARNING THEN <<frames[n]>> ELSE frames
            printed == SelectSeq(out, IsPosition)
            last == CHOOSE i \in Positions(IsPosition) : \A j \in Positions(IsPosition) : j <= i
        IN  /\ Len(printed) = Len(expected)
            /\ \A k \in 1..Len(printed) : IsPositionOf(printed[k], expected[k])
            /\ Cardinality(Positions(IsThinRule)) = (IF level > WARNING THEN 0 ELSE n - 1)
            /\ \A i \in Positions(IsThinRule) : i > 1 /\ IsPosition(out[i - 1])
            /\ \A i \in Positions(IsPosition) :
                    IF i = last THEN out[i + 1].kind = "sep" /\ out[i + 1].ch = "="
                    ELSE IsThinRule(out[i + 1])
            /\ Cardinality(Positions(IsMarker)) = 1
            /\ \A p \in Positions(IsMarker) :
                    /\ out[p].text = <<TheMarker>>
                    /\ out[p + 2].text = <<TheError.message>>
                    /\ IsNewline(out[p + 3])
                    /\ p + 4 = last

C9_Witness ==
    /\ Ended
    /\ level <= WARNING
    /\ SingleTraced
    /\ Len(TheError.traceback.frames) = 3
    /\ TheError.traceback.frames[1] # TheError.traceback.frames[3]
    /\ Cardinality(Positions(IsThinRule)) = 2
    /\ Cardinality(Positions(IsPosition)) = 3

NoTracebacks ==
    \A i \in 1..Len(call.session.results) :
        LET all == call.session.results[i].errors \o call.session.results[i].failures
        IN  \A j \in 1..Len(all) : ~all[j].traceback.present

RulesFor(lists) ==
    Flatten([i \in 1..Len(lists) |->
                [j \in 1..Len(lists[i]) |-> Location(call.session.results[i])]])

(* C10: in the detailed rendering an error or failure without a traceback  *)
(* writes nothing: the only output for it is the location separator that   *)
(* _report_error_objects writes before calling _report_error.              *)
C10_NoTracebackNoOutput ==
    (Ended /\ level <= ERROR /\ NoTracebacks) =>
        LET iF == CHOOSE i \in 1..Len(out) : IsFailuresSection(out[i])
            iE == CHOOSE i \in 1..Len(out) : IsErrorsSection(out[i])
            results == call.session.results
        IN  /\ \A i \in 1..Len(out) :
                    out[i].kind = "sep" \/ (i = 1 /\ level > WARNING /\ IsNewline(out[i]))
            /\ [k \in 1..(iE - iF - 1) |-> out[iF + k]]
                  = [k \in 1..get_num_failures(call.session) |->
                        Sep("_", <<RulesFor([i \in 1..Len(results) |-> results[i].failures])[k]>>, {})]
            /\ [k \in 1..(Len(out) - iE - 1) |-> out[iE + k]]
                  = [k \in 1..get_num_errors(call.session) |->
                        Sep("_", <<RulesFor([i \in 1..Len(results) |-> results[i].errors])[k]>>, {})]

C10_Witness ==
    /\ Ended
    /\ level = ERROR
    /\ NoTracebacks
    /\ get_num_errors(call.session) = 3
    /\ get_num_failures(call.session) = 1
    /\ Cardinality(Positions(IsLocationRule)) = 4
    /\ Len(out) = 8

====
